---- MODULE Spec2Model ----
(***************************************************************************)
(* A model of kataras/iris-cli's declaration parser (utils.parseDeclaration)*)
(* and of the archive materializer (project.Project.unzip), src/utils/go.go.*)
(*                                                                         *)
(* Byte slices and Go strings are sequences of one-character strings; a    *)
(* fixed name whose bytes no operation looks into ("go.mod", "src",        *)
(* "${GOPATH}") is a single element of such a sequence.                    *)
(* Two specifications share the module:                                    *)
(*   SpecParse  runs parseDeclaration, one loop iteration per step, on     *)
(*              texts built from a bounded number of lines;                *)
(*   Spec       runs unzip, one statement group per step, on bounded       *)
(*              archives, project descriptors and file systems.            *)
(***************************************************************************)
EXTENDS Integers, Sequences, FiniteSets, TLC

VARIABLES
    \* ---- parseDeclaration ----
    lines,          \* the input text, as the list of its lines
    declaration,    \* the keyword argument
    b,              \* the unread rest of the text (the loop variable b)
    ppc,            \* "idle" | "scan" | "done"
    branch,         \* which exit the last loop iteration took
    ret,            \* the returned slice: [ok |-> FALSE] is nil
    \* ---- Project.unzip ----
    archive,        \* r.File: the entries, each [name, content]
    Module,         \* p.Module
    Dest,           \* p.Dest as given by the caller
    gopath,         \* os.Getenv("GOPATH")
    oldModuleName,  \* the local oldModuleName
    shouldReplace,  \* the local shouldReplace
    dest,           \* the local dest (the resolved destination)
    idx,            \* position of the extraction loop in r.File (1-based)
    dirs,           \* the file system: the directories that exist
    files,          \* the file system: the regular files that exist
    oplog,          \* the file-system calls unzip has made, in order
    err,            \* the returned error: "" while running or on success
    pc              \* the position in unzip

pvars == <<lines, declaration, b, ppc, branch, ret>>
uvars == <<archive, Module, Dest, gopath, oldModuleName, shouldReplace, dest,
           idx, dirs, files, oplog, err, pc>>
vars == <<lines, declaration, b, ppc, branch, ret,
          archive, Module, Dest, gopath, oldModuleName, shouldReplace, dest,
          idx, dirs, files, oplog, err, pc>>

----------------------------------------------------------------------------
\* Bounds of the model.

\* The longest text SpecParse reads, in lines.
MaxLines == 3
\* The longest archive Spec extracts, in entries.
MaxEntries == 3

----------------------------------------------------------------------------
\* Byte-slice helpers (package bytes / strings), on sequences of characters.

slashSlash == <<"/", "/">>
multilineCommentStart == <<"/", "*">>
multilineCommentEnd == <<"*", "/">>
moduleBytes == <<"m", "o", "d", "u", "l", "e">>
pkgBytes == <<"p", "a", "c", "k", "a", "g", "e">>

\* The double quote, and the raw-string quote (the backquote byte, written
\* as a token because a TLA+ string cannot hold that character).
DQ == "\""
BQ == "BQ"

\* unicode.IsSpace on the characters of the model's alphabet.
IsSpace(c) == c \in {" ", "\t", "\n", "\r"}

\* s[lo:hi] with Go's 0-based, half-open indices.
Slice(s, lo, hi) == SubSeq(s, lo + 1, hi)

\* sep occurs in s at the 0-based index i.
OccursAt(s, sep, i) == SubSeq(s, i + 1, i + Len(sep)) = sep

\* The first index of sep in s from i on, or -1.
RECURSIVE IndexFrom(_, _, _)
IndexFrom(s, sep, i) ==
    IF i > Len(s) - Len(sep) THEN -1
    ELSE IF OccursAt(s, sep, i) THEN i
    ELSE IndexFrom(s, sep, i + 1)

\* bytes.Index / strings.Index: the 0-based index of the first sep in s, or -1.
Index(s, sep) == IndexFrom(s, sep, 0)

\* bytes.HasPrefix / strings.HasPrefix.
HasPrefix(s, prefix) == Len(s) >= Len(prefix) /\ OccursAt(s, prefix, 0)

\* bytes.TrimSpace.
TrimSpace(s) ==
    LET keep == {i \in 1..Len(s) : ~IsSpace(s[i])}
    IN IF keep = {} THEN <<>>
       ELSE LET lo == CHOOSE i \in keep : \A j \in keep : i <= j
                hi == CHOOSE i \in keep : \A j \in keep : j <= i
            IN SubSeq(s, lo, hi)

\* strconv.Unquote on a text without backslashes (the model's texts hold
\* none): the first and last byte are the same quote, and the quote does
\* not occur in between (nor a newline, for a double-quoted string).
Unquote(s) ==
    LET n == Len(s)
        quote == s[1]
        inner == SubSeq(s, 2, n - 1)
        has(c) == \E i \in 1..Len(inner) : inner[i] = c
    IN IF n < 2 THEN [err |-> TRUE, p |-> <<>>]
       ELSE IF quote /= s[n] THEN [err |-> TRUE, p |-> <<>>]
       ELSE IF quote = BQ
            THEN IF has(BQ) THEN [err |-> TRUE, p |-> <<>>]
                 ELSE [err |-> FALSE, p |-> inner]
       ELSE IF quote /= DQ /\ quote /= "'" THEN [err |-> TRUE, p |-> <<>>]
       ELSE IF has("\n") \/ has(quote) THEN [err |-> TRUE, p |-> <<>>]
       ELSE IF quote = "'" /\ Len(inner) /= 1 THEN [err |-> TRUE, p |-> <<>>]
       ELSE [err |-> FALSE, p |-> inner]

\* bytes.Replace(s, old, new, -1) as bytes.ReplaceAll calls it: the
\* non-overlapping occurrences of old, left to right; an empty old matches
\* before every byte and at the end.
RECURSIVE ReplaceFrom(_, _, _)
ReplaceFrom(s, old, new) ==
    IF Len(old) = 0
    THEN IF s = <<>> THEN new
         ELSE new \o <<Head(s)>> \o ReplaceFrom(Tail(s), old, new)
    ELSE LET i == Index(s, old)
         IN IF i < 0 THEN s
            ELSE Slice(s, 0, i) \o new
                 \o ReplaceFrom(Slice(s, i + Len(old), Len(s)), old, new)

ReplaceAll(s, old, new) == ReplaceFrom(s, old, new)

\* strings.Replace(s, old, new, 1) for a non-empty old.
ReplaceFirst(s, old, new) ==
    LET i == Index(s, old)
    IN IF i < 0 THEN s
       ELSE Slice(s, 0, i) \o new \o Slice(s, i + Len(old), Len(s))

----------------------------------------------------------------------------
\* parseDeclaration.

Nil == [ok |-> FALSE, val |-> <<>>]
Some(v) == [ok |-> TRUE, val |-> v]

\* The line the loop reads next: b up to its first newline.
CurLine(text) ==
    LET i == Index(text, <<"\n">>)
    IN IF i >= 0 THEN Slice(text, 0, i) ELSE text

\* The text after that line.
RestAfter(text) ==
    LET i == Index(text, <<"\n">>)
    IN IF i >= 0 THEN Slice(text, i + 1, Len(text)) ELSE <<>>

\* The line with its // comment cut off.
StripLineComment(line) ==
    LET i == Index(line, slashSlash)
    IN IF i >= 0 THEN Slice(line, 0, i) ELSE line

\* A different block-comment branch: without an end marker the rest of the
\* text is taken to be inside the comment.
SkipCommentToEnd(rest) ==
    LET i == Index(rest, multilineCommentEnd)
    IN IF i > 0 THEN Slice(rest, i, Len(rest))
       ELSE IF i < 0 THEN <<>>
       ELSE rest

\* The block-comment branch: where the scan resumes after a line holding "/*".
SkipComment(rest) ==
    LET i == Index(rest, multilineCommentEnd)
    IN IF i > 0 THEN Slice(rest, i, Len(rest)) ELSE rest

\* One iteration of the loop on a non-empty text with keyword decl:
\* [branch, done, ret, b]: the exit taken, whether the function returned,
\* what it returned, and the new b.
ParseStep(text, decl) ==
    LET rest == RestAfter(text)
        line == StripLineComment(CurLine(text))
        trimmed == TrimSpace(line)
        after == Slice(trimmed, Len(decl), Len(trimmed))
        arg == TrimSpace(after)
    IN IF Index(line, multilineCommentStart) >= 0
       THEN [branch |-> "comment", done |-> FALSE, ret |-> Nil,
             b |-> SkipComment(rest)]
       ELSE IF ~HasPrefix(trimmed, decl)
       THEN [branch |-> "other", done |-> FALSE, ret |-> Nil, b |-> rest]
       ELSE IF Len(arg) = Len(after) \/ Len(arg) = 0
       THEN [branch |-> "noarg", done |-> FALSE, ret |-> Nil, b |-> rest]
       ELSE IF arg[1] = DQ \/ arg[1] = BQ
       THEN IF Unquote(arg).err
            THEN [branch |-> "malformed", done |-> TRUE, ret |-> Nil, b |-> rest]
            ELSE [branch |-> "quoted", done |-> TRUE,
                  ret |-> Some(Unquote(arg).p), b |-> rest]
       ELSE [branch |-> "bare", done |-> TRUE, ret |-> Some(arg), b |-> rest]

\* The whole function.
RECURSIVE parseDeclaration(_, _)
parseDeclaration(text, decl) ==
    IF Len(text) = 0 THEN Nil
    ELSE LET s == ParseStep(text, decl)
         IN IF s.done THEN s.ret ELSE parseDeclaration(s.b, decl)

ModulePath(text) == parseDeclaration(text, moduleBytes)

Package(text) == parseDeclaration(text, pkgBytes)

----------------------------------------------------------------------------
\* The texts SpecParse reads: up to MaxLines lines, each one of these.

\* The value the declaration lines below declare.
DeclValue == <<"v">>

\* go 1
LPlain == <<"g", "o", " ", "1">>
\* module "v"
LDecl == moduleBytes \o <<" ", DQ>> \o DeclValue \o <<DQ>>
\* <space>module<tab>"v" // c<space>
LDeclPadded ==
    <<" ">> \o moduleBytes \o <<"\t", DQ>> \o DeclValue \o <<DQ, " ", "/", "/", " ", "c", " ">>
\* module w
LBare == moduleBytes \o <<" ", "w">>
\* moduleX "v"
LLonger == moduleBytes \o <<"X", " ", DQ>> \o DeclValue \o <<DQ>>
\* module "v      (the closing quote is missing)
LMalformed == moduleBytes \o <<" ", DQ>> \o DeclValue
\* package p
LPkg == pkgBytes \o <<" ", "p">>
\* /* c
LOpen == multilineCommentStart \o <<" ", "c">>
\* c */
LClose == <<"c", " ">> \o multilineCommentEnd
\* /* c */
LOneLine == multilineCommentStart \o <<" ", "c", " ">> \o multilineCommentEnd

LineForms ==
    {LPlain, LDecl, LDeclPadded, LBare, LLonger, LMalformed, LPkg, LOpen,
     LClose, LOneLine}

\* All sequences over S of length at most n.
SeqsUpTo(S, n) == UNION {[1..k -> S] : k \in 0..n}

\* The text made of the lines ls, a line feed between two lines.
RECURSIVE JoinLines(_)
JoinLines(ls) ==
    IF Len(ls) = 0 THEN <<>>
    ELSE IF Len(ls) = 1 THEN ls[1]
    ELSE ls[1] \o <<"\n">> \o JoinLines(Tail(ls))

\* The unzip variables while only the parser runs.
UnzipIdle ==
    /\ archive = <<>>
    /\ Module = <<>>
    /\ Dest = <<>>
    /\ gopath = <<>>
    /\ oldModuleName = <<>>
    /\ shouldReplace = FALSE
    /\ dest = <<>>
    /\ idx = 0
    /\ dirs = {}
    /\ files = {}
    /\ oplog = <<>>
    /\ err = ""
    /\ pc = "idle"

\* ModulePath(b) or Package(b) is called on a text.
InitParse ==
    /\ lines \in SeqsUpTo(LineForms, MaxLines)
    /\ declaration \in {moduleBytes, pkgBytes}
    /\ b = JoinLines(lines)
    /\ ppc = "scan"
    /\ branch = "none"
    /\ ret = Nil
    /\ UnzipIdle

\* One iteration of "for len(b) > 0".
ParseLine ==
    /\ ppc = "scan"
    /\ Len(b) > 0
    /\ LET s == ParseStep(b, declaration)
       IN /\ b' = s.b
          /\ branch' = s.branch
          /\ ret' = s.ret
          /\ ppc' = IF s.done THEN "done" ELSE "scan"
    /\ UNCHANGED <<lines, declaration>>
    /\ UNCHANGED uvars

\* The loop ends with b empty: return nil.
ParseEnd ==
    /\ ppc = "scan"
    /\ Len(b) = 0
    /\ ppc' = "done"
    /\ branch' = "eof"
    /\ ret' = Nil
    /\ UNCHANGED <<lines, declaration, b>>
    /\ UNCHANGED uvars

NextParse == ParseLine \/ ParseEnd

SpecParse == InitParse /\ [][NextParse]_vars

----------------------------------------------------------------------------
\* Path helpers (package path/filepath on a system whose separator is "/").

Sep == <<"/">>

\* The segments joined with "/".
RECURSIVE JoinSlash(_)
JoinSlash(segs) ==
    IF Len(segs) = 0 THEN <<>>
    ELSE IF Len(segs) = 1 THEN segs[1]
    ELSE segs[1] \o Sep \o JoinSlash(Tail(segs))

\* The 1-based position of the last element of the segment that begins at
\* position i: the one before the next "/" or the last of s.
RECURSIVE SegEnd(_, _)
SegEnd(s, i) ==
    IF i > Len(s) THEN i - 1
    ELSE IF s[i] = "/" THEN i - 1
    ELSE SegEnd(s, i + 1)

\* filepath.Clean's pass over the path from position r on, out being the
\* segments kept so far: separators are skipped, "." is dropped, ".." takes
\* back the segment before it; a ".." with nothing before it is dropped in
\* a rooted path and kept in a relative one.
RECURSIVE CleanFrom(_, _, _, _)
CleanFrom(path, r, out, rooted) ==
    IF r > Len(path) THEN out
    ELSE IF path[r] = "/" THEN CleanFrom(path, r + 1, out, rooted)
    ELSE LET e == SegEnd(path, r)
             seg == SubSeq(path, r, e)
             n == Len(out)
         IN IF seg = <<".">> THEN CleanFrom(path, e + 1, out, rooted)
            ELSE IF seg = <<".", ".">>
            THEN IF n > 0 /\ out[n] /= <<".", ".">>
                 THEN CleanFrom(path, e + 1, SubSeq(out, 1, n - 1), rooted)
                 ELSE IF rooted
                 THEN CleanFrom(path, e + 1, out, rooted)
                 ELSE CleanFrom(path, e + 1, Append(out, seg), rooted)
            ELSE CleanFrom(path, e + 1, Append(out, seg), rooted)

\* filepath.IsAbs.
IsAbs(path) == HasPrefix(path, Sep)

\* filepath.Clean.
Clean(path) ==
    LET rooted == IsAbs(path)
        out == JoinSlash(CleanFrom(path, 1, <<>>, rooted))
    IN IF rooted THEN Sep \o out
       ELSE IF Len(out) = 0 THEN <<".">>
       ELSE out

\* filepath.Join of the elements elems: empty elements are ignored, the
\* result is cleaned, and it is empty when there is nothing to join.
Join(elems) ==
    LET nonEmpty(e) == Len(e) > 0
        kept == SelectSeq(elems, nonEmpty)
    IN IF Len(kept) = 0 THEN <<>> ELSE Clean(JoinSlash(kept))

\* The path without its trailing separators.
RECURSIVE StripTrailingSep(_)
StripTrailingSep(path) ==
    IF Len(path) > 0 /\ path[Len(path)] = "/"
    THEN StripTrailingSep(SubSeq(path, 1, Len(path) - 1))
    ELSE path

\* The 0-based index of the last "/" among the first n bytes of the path,
\* or -1.
RECURSIVE LastSepBefore(_, _)
LastSepBefore(path, n) ==
    IF n = 0 THEN -1
    ELSE IF path[n] = "/" THEN n - 1
    ELSE LastSepBefore(path, n - 1)

\* The 0-based index of the last "/" of the path, or -1.
LastSep(path) == LastSepBefore(path, Len(path))

\* filepath.Base.
Base(path) ==
    IF Len(path) = 0 THEN <<".">>
    ELSE LET p == StripTrailingSep(path)
             last == Slice(p, LastSep(p) + 1, Len(p))
         IN IF Len(last) = 0 THEN Sep ELSE last

\* filepath.Dir.
Dir(path) == Clean(Slice(path, 0, LastSep(path) + 1))

\* filepath.Abs in the working directory cwd.
Abs(path, cwd) == IF IsAbs(path) THEN Clean(path) ELSE Join(<<cwd, path>>)

\* The path itself and every directory above it (path is absolute and clean).
AncestorsOrSelf(path) ==
    {Sep} \cup {Slice(path, 0, i) : i \in {j \in 1..Len(path) :
                                           j = Len(path) \/ path[j + 1] = "/"}}

\* path is under root or is root itself (both are absolute and clean): root
\* is one of the directories above path, or path itself.
AtOrUnder(path, root) ==
    \/ path = root
    \/ root = Sep
    \/ /\ Len(path) > Len(root)
       /\ SubSeq(path, 1, Len(root)) = root
       /\ path[Len(root) + 1] = "/"

\* path is strictly inside root.
StrictlyUnder(path, root) == path /= root /\ AtOrUnder(path, root)

----------------------------------------------------------------------------
\* The file system, as the sets dirs and files of absolute clean paths.

\* path is root or lies below it.
Under(path, root) ==
    path = root \/ HasPrefix(path, IF root = Sep THEN Sep ELSE root \o Sep)

\* os.MkdirAll can succeed: no file stands where a directory is needed.
MkdirAllPossible(path, fs) == AncestorsOrSelf(path) \cap fs.files = {}

\* os.MkdirAll: the directory and its missing parents.
MkdirAll(path, fs) ==
    [dirs |-> fs.dirs \cup AncestorsOrSelf(path), files |-> fs.files]

\* os.OpenFile(O_WRONLY|O_CREATE|O_TRUNC) can succeed: the parent is a
\* directory and the path is not one.
OpenFilePossible(path, fs) == Dir(path) \in fs.dirs /\ path \notin fs.dirs

\* os.OpenFile: the file exists afterwards.
OpenFile(path, fs) == [dirs |-> fs.dirs, files |-> fs.files \cup {path}]

\* os.RemoveAll: the path and everything below it are gone.
RemoveAll(path, fs) ==
    [dirs |-> {d \in fs.dirs : ~Under(d, path)},
     files |-> {f \in fs.files : ~Under(f, path)}]

\* The directory holds nothing.
IsEmptyDir(path, fs) ==
    /\ path \in fs.dirs
    /\ \A q \in fs.dirs \cup fs.files : q = path \/ ~Under(q, path)

\* os.Rename(old, new) can succeed: old exists, new's parent is a directory,
\* new is not inside old, and new is absent, old itself, an empty directory
\* (old a directory) or a file (old a file).
RenamePossible(old, new, fs) ==
    /\ old \in fs.dirs \cup fs.files
    /\ Dir(new) \in fs.dirs
    /\ ~(new /= old /\ Under(new, old))
    /\ \/ new \notin fs.dirs \cup fs.files
       \/ new = old
       \/ old \in fs.dirs /\ IsEmptyDir(new, fs)
       \/ old \in fs.files /\ new \in fs.files

\* os.Rename: what was at or below old is at or below new.
Rename(old, new, fs) ==
    LET moved(q) == IF Under(q, old) THEN new \o Slice(q, Len(old), Len(q)) ELSE q
        rest == RemoveAll(new, fs)
    IN IF new = old THEN fs
       ELSE [dirs |-> {moved(d) : d \in rest.dirs},
             files |-> {moved(f) : f \in rest.files}]

----------------------------------------------------------------------------
\* Project.unzip: the inputs of the model.

\* p.Repo and p.Branch.
Repo == <<"h", "/", "r">>
Branch == <<"m">>

\* The identity the archive's manifest declares, and the caller's own.
IdentityA == <<"o", "/", "a">>
IdentityB == <<"n", "/", "b">>

\* "go.mod", one element: nothing looks into the name.
goMod == <<"go.mod">>

\* compressedRootFolder.
compressedRootFolder == Base(Repo) \o <<"-">> \o Branch

\* modFile.
modFile == Join(<<compressedRootFolder, goMod>>)

\* The archive entries of the model.
\* r-m/                     the root directory
EDir == [name |-> compressedRootFolder \o Sep, content |-> <<>>]
\* r-m/go.mod               module o/a
EMod == [name |-> compressedRootFolder \o Sep \o goMod,
         content |-> moduleBytes \o <<" ">> \o IdentityA]
\* r-m/go.mod               go 1      (no module declaration)
EModNone == [name |-> compressedRootFolder \o Sep \o goMod, content |-> LPlain]
\* r-m/f                    o/a o/a
EFile == [name |-> compressedRootFolder \o <<"/", "f">>,
          content |-> IdentityA \o <<" ">> \o IdentityA]
\* ../we                    a name that leaves the destination (beside the
\*                          working directory /w when that is the destination)
EEscape == [name |-> <<".", ".", "/", "w", "e">>, content |-> <<"e">>]
\* b                        a name inside the destination, outside r-m
EOutside == [name |-> Base(IdentityB), content |-> <<"x">>]

EntryForms == {EDir, EMod, EModNone, EFile, EEscape, EOutside}

\* The caller's p.Module: unset, an identity of its own, one whose base is
\* the archive's root folder, one whose base is "..".
ModuleInputs == {<<>>, IdentityB, compressedRootFolder, <<".", ".">>}

\* The value of GOPATH, when set; the working directory; "${GOPATH}".
GopathDir == <<"/", "g">>
Cwd == <<"/", "w">>
GopathVar == <<"${GOPATH}">>

\* The caller's p.Dest: unset, or ${GOPATH}/d.
DestInputs == {<<>>, GopathVar \o <<"/", "d">>}

\* GOPATH: unset or set.
GopathInputs == {<<>>, GopathDir}

\* FileInfo().IsDir() of a zip entry: its name ends with "/".
IsDir(f) == Len(f.name) > 0 /\ f.name[Len(f.name)] = "/"

----------------------------------------------------------------------------
\* Project.unzip: the steps before the extraction loop.

\* The manifest scan "for i := len(r.File) - 1; i > 0; i--": the 1-based
\* position of the entry it stops at, 0 when it finds none.
FindModFile(entries) ==
    LET hits == {i \in 2..Len(entries) : Clean(entries[i].name) = modFile}
    IN IF hits = {} THEN 0 ELSE CHOOSE i \in hits : \A j \in hits : j <= i

\* oldModuleName after the scan.
OldModuleName(entries) ==
    LET i == FindModFile(entries)
    IN IF i = 0 THEN <<>> ELSE ModulePath(entries[i].content).val

\* p.Module after the scan.
ResolvedModule(entries, module) ==
    IF module = <<>> /\ FindModFile(entries) /= 0
    THEN OldModuleName(entries) ELSE module

\* dest: the destination as lines 236-251 resolve it.
ResolvedDest(given, goPath, module) ==
    IF given = <<>>
    THEN IF goPath /= <<>>
         THEN Join(<<goPath, <<"src">>, Dir(module)>>)
         ELSE Cwd
    ELSE Abs(ReplaceFirst(given, GopathVar, goPath), Cwd)

\* newpath.
NewPath(destination, module) == Join(<<destination, Base(module)>>)

\* The path of the extracted root folder.
RootPath(destination) == Join(<<destination, compressedRootFolder>>)

\* A faulty zip-slip test: the prefix is compared without the separator
\* after it, so a sibling whose name begins like the destination's passes.
IllegalPathUnseparated(fpath, destination) == ~HasPrefix(fpath, Clean(destination))

\* The zip-slip test of line 259: the entry's path is refused.
IllegalPath(fpath, destination) == ~HasPrefix(fpath, Clean(destination) \o Sep)

\* The content written for an entry.
NewContents(contents, replace, old, new) ==
    IF replace THEN ReplaceAll(contents, old, new) ELSE contents

----------------------------------------------------------------------------
\* Project.unzip: the state machine.

\* The parser variables while only unzip runs.
ParseIdle ==
    /\ lines = <<>>
    /\ declaration = <<>>
    /\ b = <<>>
    /\ ppc = "idle"
    /\ branch = "none"
    /\ ret = Nil

\* The file system as one value.
FS == [dirs |-> dirs, files |-> files]

\* The directories every run starts with: /, the working directory, GOPATH
\* and GOPATH/src: every directory above a destination the model resolves.
BaseDirs == {Sep, Cwd, GopathDir, GopathDir \o <<"/", "src">>}

\* The file system before the run: bare, or used: what an earlier run left
\* behind in the destination destination0, an extracted root folder (that
\* run failed before its rename) and an installed project with a file of
\* its own under the final name.
InitialFS(destination0, module0, used) ==
    LET bare == [dirs |-> BaseDirs, files |-> {}]
        final0 == NewPath(destination0, module0)
    IN IF ~used THEN bare
       ELSE OpenFile(Join(<<final0, <<"old">>>>),
                     MkdirAll(final0, MkdirAll(RootPath(destination0), bare)))

\* Install has the archive bytes and calls unzip.
Init ==
    /\ archive \in SeqsUpTo(EntryForms, MaxEntries)
    /\ Module \in ModuleInputs
    /\ Dest \in DestInputs
    /\ gopath \in GopathInputs
    /\ \E used \in BOOLEAN :
          LET module0 == ResolvedModule(archive, Module)
              fs0 == InitialFS(ResolvedDest(Dest, gopath, module0), module0, used)
          IN dirs = fs0.dirs /\ files = fs0.files
    /\ oldModuleName = <<>>
    /\ shouldReplace = FALSE
    /\ dest = <<>>
    /\ idx = 0
    /\ oplog = <<>>
    /\ err = ""
    /\ pc = "open"
    /\ ParseIdle

\* Lines 198-252, when nothing fails: zip.NewReader reads the entry list,
\* the manifest scan sets oldModuleName and the default of p.Module,
\* shouldReplace is computed and the destination is resolved.
Prepare ==
    /\ pc = "open"
    /\ oldModuleName' = OldModuleName(archive)
    /\ Module' = ResolvedModule(archive, Module)
    /\ shouldReplace' = (oldModuleName' /= Module')
    /\ dest' = ResolvedDest(Dest, gopath, Module')
    /\ Dest' = dest'
    /\ idx' = 1
    /\ pc' = "extract"
    /\ UNCHANGED <<archive, gopath, dirs, files, oplog, err>>
    /\ UNCHANGED pvars

\* Lines 199-202: the bytes are no zip archive (there are no entries then).
OpenArchiveFail ==
    /\ pc = "open"
    /\ archive = <<>>
    /\ pc' = "done"
    /\ err' = "zip"
    /\ UNCHANGED <<archive, Module, Dest, gopath, oldModuleName, shouldReplace,
                   dest, idx, dirs, files, oplog>>
    /\ UNCHANGED pvars

\* Lines 211-219: the manifest was found and cannot be opened or read.
ManifestReadFail ==
    /\ pc = "open"
    /\ FindModFile(archive) /= 0
    /\ pc' = "done"
    /\ err' = "read"
    /\ UNCHANGED <<archive, Module, Dest, gopath, oldModuleName, shouldReplace,
                   dest, idx, dirs, files, oplog>>
    /\ UNCHANGED pvars

\* A faulty loop end: the last entry is left out.
LoopDoneEarly == idx >= Len(archive)

\* "for _, f := range r.File" has gone through every entry.
LoopDone == idx > Len(archive)

\* The entry the extraction loop is at, and its fpath.
CurEntry == archive[idx]
CurPath == Join(<<dest, CurEntry.name>>)

\* Lines 256-261: the entry's path is refused.
EntryIllegal ==
    /\ pc = "extract"
    /\ ~LoopDone
    /\ IllegalPath(CurPath, dest)
    /\ pc' = "done"
    /\ err' = "illegal path"
    /\ UNCHANGED <<archive, Module, Dest, gopath, oldModuleName, shouldReplace,
                   dest, idx, dirs, files, oplog>>
    /\ UNCHANGED pvars

\* Lines 263-266: a directory entry. MkdirAll's error is not looked at; it
\* can fail only when the directory is not there yet.
EntryDir ==
    /\ pc = "extract"
    /\ ~LoopDone
    /\ IsDir(CurEntry)
    /\ LET fpath == CurPath
       IN /\ ~IllegalPath(fpath, dest)
          /\ \E ok \in BOOLEAN :
                /\ ok => MkdirAllPossible(fpath, FS)
                /\ ~ok => fpath \notin dirs
                /\ dirs' = IF ok THEN MkdirAll(fpath, FS).dirs ELSE dirs
                /\ oplog' = Append(oplog, [op |-> "MkdirAll", path |-> fpath,
                                           ok |-> ok, data |-> <<>>,
                                           entry |-> idx])
    /\ idx' = idx + 1
    /\ UNCHANGED <<archive, Module, Dest, gopath, oldModuleName, shouldReplace,
                   dest, files, err, pc>>
    /\ UNCHANGED pvars

\* Lines 268-297: a file entry. It fails at "create" (os.OpenFile), or at
\* "stream" (f.Open, ioutil.ReadAll or io.Copy, the file being created and
\* truncated by then), or is written whole.
EntryFile ==
    /\ pc = "extract"
    /\ ~LoopDone
    /\ ~IsDir(CurEntry)
    /\ LET fpath == CurPath
           canOpen == OpenFilePossible(fpath, FS)
       IN /\ ~IllegalPath(fpath, dest)
          /\ \E outcome \in {"ok", "create", "stream"} :
                /\ outcome /= "create" => canOpen
                /\ files' = IF outcome = "create" THEN files
                            ELSE OpenFile(fpath, FS).files
                /\ oplog' = Append(oplog,
                       [op |-> IF outcome = "create" THEN "OpenFile" ELSE "WriteFile",
                        path |-> fpath,
                        ok |-> (outcome = "ok"),
                        data |-> IF outcome = "ok"
                                 THEN NewContents(CurEntry.content, shouldReplace,
                                                  oldModuleName, Module)
                                 ELSE <<>>,
                        entry |-> idx])
                /\ err' = IF outcome = "ok" THEN "" ELSE outcome
                /\ pc' = IF outcome = "ok" THEN "extract" ELSE "done"
                /\ idx' = IF outcome = "ok" THEN idx + 1 ELSE idx
    /\ UNCHANGED <<archive, Module, Dest, gopath, oldModuleName, shouldReplace,
                   dest, dirs>>
    /\ UNCHANGED pvars

\* Lines 300-301: after the last entry, os.RemoveAll(newpath). Its error is
\* not looked at; it can fail only when there is something to remove.
RemoveFinal ==
    /\ pc = "extract"
    /\ LoopDone
    /\ LET newpath == NewPath(dest, Module)
       IN \E ok \in BOOLEAN :
             /\ ~ok => newpath \in dirs \cup files
             /\ LET after == IF ok THEN RemoveAll(newpath, FS) ELSE FS
                IN dirs' = after.dirs /\ files' = after.files
             /\ oplog' = Append(oplog, [op |-> "RemoveAll", path |-> newpath,
                                        ok |-> ok, data |-> <<>>,
                                        entry |-> 0])
    /\ pc' = "rename"
    /\ UNCHANGED <<archive, Module, Dest, gopath, oldModuleName, shouldReplace,
                   dest, idx, err>>
    /\ UNCHANGED pvars

\* Line 302: os.Rename of the extracted root folder to newpath; its error
\* is unzip's result.
RenameRoot ==
    /\ pc = "rename"
    /\ LET newpath == NewPath(dest, Module)
           old == RootPath(dest)
       IN \E ok \in BOOLEAN :
             /\ ok => RenamePossible(old, newpath, FS)
             /\ LET after == IF ok THEN Rename(old, newpath, FS) ELSE FS
                IN dirs' = after.dirs /\ files' = after.files
             /\ oplog' = Append(oplog, [op |-> "Rename", path |-> newpath,
                                        ok |-> ok, data |-> <<>>,
                                        entry |-> 0])
             /\ err' = IF ok THEN "" ELSE "rename"
    /\ pc' = "done"
    /\ UNCHANGED <<archive, Module, Dest, gopath, oldModuleName, shouldReplace,
                   dest, idx>>
    /\ UNCHANGED pvars

Next ==
    \/ Prepare
    \/ OpenArchiveFail
    \/ ManifestReadFail
    \/ EntryIllegal
    \/ EntryDir
    \/ EntryFile
    \/ RemoveFinal
    \/ RenameRoot

Spec == Init /\ [][Next]_vars

----------------------------------------------------------------------------
\* What the lines of a text mean, told from the line forms alone (not by
\* running the parser): the reference the parser's results are held against.

\* Whether the text s, read from the lexer state st ("code", "line" for a
\* // comment, "block" for a block comment), ends inside a block comment.
RECURSIVE EndsInBlockComment(_, _)
EndsInBlockComment(s, st) ==
    IF Len(s) = 0 THEN st = "block"
    ELSE IF st = "block"
         THEN IF HasPrefix(s, multilineCommentEnd)
              THEN EndsInBlockComment(Slice(s, 2, Len(s)), "code")
              ELSE EndsInBlockComment(Tail(s), "block")
    ELSE IF st = "line"
         THEN EndsInBlockComment(Tail(s), IF Head(s) = "\n" THEN "code" ELSE "line")
    ELSE IF HasPrefix(s, multilineCommentStart)
         THEN EndsInBlockComment(Slice(s, 2, Len(s)), "block")
    ELSE IF HasPrefix(s, slashSlash)
         THEN EndsInBlockComment(Slice(s, 2, Len(s)), "line")
    ELSE EndsInBlockComment(Tail(s), "code")

\* The lines before line k, as a text ending in a line feed.
TextBefore(k) == JoinLines(SubSeq(lines, 1, k - 1)) \o <<"\n">>

\* The lines after line k, as a text.
TextAfter(k) == JoinLines(SubSeq(lines, k + 1, Len(lines)))

\* Line forms that declare the quoted value for the keyword module.
QuotedDecls == {LDecl, LDeclPadded}

\* Line forms that begin with the keyword module and an argument.
ModuleLines == {LDecl, LDeclPadded, LBare, LMalformed}

\* Line forms that hold neither a declaration of either keyword nor a
\* comment marker.
PlainLines == {LPlain, LLonger}

\* The line holds a block-comment start marker outside a // comment.
HasStart(l) == Index(StripLineComment(l), multilineCommentStart) >= 0

\* What a line outside any comment declares for keyword decl:
\* "skip" (nothing), or the result the parse ends with at this line.
LineMeaning(l, decl) ==
    IF decl = moduleBytes /\ l \in QuotedDecls THEN Some(DeclValue)
    ELSE IF decl = moduleBytes /\ l = LBare THEN Some(<<"w">>)
    ELSE IF decl = moduleBytes /\ l = LMalformed THEN Nil
    ELSE IF decl = pkgBytes /\ l = LPkg THEN Some(<<"p">>)
    ELSE [ok |-> FALSE, val |-> <<"skip">>]

\* The result at the first line of ls that declares something; nil if none.
RECURSIVE FirstDeclared(_, _)
FirstDeclared(ls, decl) ==
    IF Len(ls) = 0 THEN Nil
    ELSE IF LineMeaning(ls[1], decl).val = <<"skip">>
         THEN FirstDeclared(Tail(ls), decl)
    ELSE LineMeaning(ls[1], decl)

\* Line k is the first line the scan cannot pass over as plain text, it
\* holds a block-comment start marker, and no end marker occurs anywhere
\* in the text after it.
UnterminatedAt(k) ==
    /\ k \in 1..Len(lines)
    /\ \A j \in 1..(k - 1) : lines[j] \in PlainLines
    /\ HasStart(lines[k])
    /\ Index(TextAfter(k), multilineCommentEnd) = -1

\* Line k is a declaration keyword "value" of the module keyword, it is the
\* first line that begins with the keyword and an argument, and the text
\* before it does not end inside a block comment.
QuotedDeclAt(k) ==
    /\ k \in 1..Len(lines)
    /\ lines[k] \in QuotedDecls
    /\ \A j \in 1..(k - 1) : lines[j] \notin ModuleLines
    /\ ~EndsInBlockComment(TextBefore(k), "code")

----------------------------------------------------------------------------
\* Claims about parseDeclaration (checked under SpecParse).

\* C4 (as claimed): for every text that holds a line keyword "value"
\* (possibly padded with white space and followed by a // comment) that no
\* unterminated block comment precedes, parseDeclaration returns exactly
\* value; block comments opened and closed earlier do not hide it.
C4_DeclarationFound ==
    (ppc = "done" /\ declaration = moduleBytes
        /\ \E k \in 1..Len(lines) : QuotedDeclAt(k))
    => ret = Some(DeclValue)

\* C9 (as claimed): when a line holds "/*" and no "*/" occurs anywhere in
\* the remaining text, parseDeclaration stops and returns nil: no
\* declaration on a later line is returned.
C9_UnterminatedStops ==
    (ppc = "done" /\ \E k \in 1..Len(lines) : UnterminatedAt(k))
    => ret = Nil

\* C9 (amended): when a line holds "/*" and no "*/" occurs anywhere in the
\* remaining text, parseDeclaration skips that line only and goes on with
\* the next one: it returns what the first declaring line after it
\* declares (nil if there is none).
C9_UnterminatedSkipsLine ==
    \A k \in 1..Len(lines) :
        (ppc = "done" /\ UnterminatedAt(k))
        => ret = FirstDeclared(SubSeq(lines, k + 1, Len(lines)), declaration)

\* C9 witness: an unterminated block comment was passed and the declaration
\* on a later line was returned.
C9_Witness ==
    /\ ppc = "done"
    /\ \E k \in 1..Len(lines) : UnterminatedAt(k)
    /\ ret = Some(DeclValue)

----------------------------------------------------------------------------
\* Reference notions for the claims about unzip.

\* The calls that create or write a file or a directory for an entry.
WriteOps == {"MkdirAll", "OpenFile", "WriteFile"}

\* The positions of the log, and those of the calls made for an entry.
LogIndexes == 1..Len(oplog)
WriteIndexes == {i \in LogIndexes : oplog[i].op \in WriteOps}

\* unzip is past line 252: oldModuleName, p.Module and dest are settled.
Prepared == pc \in {"extract", "rename"} \/ (pc = "done" /\ err \notin {"zip", "read"})

\* Every destination the inputs of the model can resolve to.
Destinations ==
    {ResolvedDest(given, goPath, module) :
        given \in DestInputs, goPath \in GopathInputs,
        module \in ModuleInputs \cup {IdentityA}}

\* For each destination, the entries whose joined, cleaned output path is
\* not strictly inside it.
EscapingEntries ==
    [d \in Destinations |->
        {e \in EntryForms : ~StrictlyUnder(Join(<<d, e.name>>), d)}]

\* For each destination, the path <dest>/<rootPrefix>.
RootFolderPath == [d \in Destinations |-> Join(<<d, compressedRootFolder>>)]

\* The cleaned name of each entry, and the cleaned name of a manifest.
CleanedName == [e \in EntryForms |-> Clean(e.name)]
ManifestName == Join(<<compressedRootFolder, goMod>>)

\* Entry k's output path is not strictly inside the destination.
Escapes(k) == archive[k] \in EscapingEntries[dest]

\* Entry k is a manifest: its cleaned name is <rootPrefix>/go.mod.
IsManifest(k) == CleanedName[archive[k]] = ManifestName

\* The first entry from k on that escapes, 0 when none does.
RECURSIVE FirstEscaping(_)
FirstEscaping(k) ==
    IF k > Len(archive) THEN 0
    ELSE IF Escapes(k) THEN k
    ELSE FirstEscaping(k + 1)

\* Entry k's cleaned name is the root folder or lies below it.
InRootFolder(k) ==
    LET name == CleanedName[archive[k]]
    IN \/ name = compressedRootFolder
       \/ /\ Len(name) > Len(compressedRootFolder)
          /\ SubSeq(name, 1, Len(compressedRootFolder) + 1)
             = compressedRootFolder \o Sep

----------------------------------------------------------------------------
\* Claims about Project.unzip (checked under Spec).

\* C1: unzip never creates or writes a file or directory outside the
\* destination: every path it creates, writes or renames to is strictly
\* inside dest, and at the first entry whose joined, cleaned path is not
\* strictly inside dest it returns "illegal path": nothing is written for
\* that entry, no later entry is processed, and nothing is removed or renamed.
C1_PathSafety ==
    Prepared =>
        /\ \A i \in LogIndexes :
              (oplog[i].op \in WriteOps \/ (oplog[i].op = "Rename" /\ oplog[i].ok))
              => StrictlyUnder(oplog[i].path, dest)
        /\ LET k == FirstEscaping(1)
           IN k /= 0
              => /\ idx <= k
                 /\ pc /= "rename"
                 /\ \A i \in LogIndexes : oplog[i].entry \in 1..(k - 1)
                 /\ (pc = "done" /\ idx = k) => err = "illegal path"
                 /\ pc = "done" => err /= ""

\* C1 witness: an entry was written, the next one was refused with
\* "illegal path", and an entry after it was left alone.
C1_Witness ==
    /\ pc = "done"
    /\ err = "illegal path"
    /\ idx = 2
    /\ Len(archive) = 3
    /\ Escapes(2)
    /\ Len(oplog) = 1
    /\ oplog[1].ok

\* C2 (as claimed): the manifest declares identity A, p.Module is the
\* caller's identity B /= A, and unzip succeeded: every file entry was
\* written as its stored content with every occurrence of A replaced by B,
\* and the root folder is now <dest>/<base(B)>.
C2_RewriteToCallerIdentity ==
    (/\ pc = "done"
     /\ err = ""
     /\ Module = IdentityB
     /\ \E k \in 1..Len(archive) : IsManifest(k)
     /\ \A k \in 1..Len(archive) : IsManifest(k) => archive[k] = EMod)
    => /\ \A i \in LogIndexes :
             (oplog[i].op = "WriteFile" /\ oplog[i].ok)
             => oplog[i].data
                = ReplaceAll(archive[oplog[i].entry].content, IdentityA, IdentityB)
       /\ Join(<<dest, Base(IdentityB)>>) \in dirs

\* C3 (as claimed): p.Module is non-empty when the first file or directory
\* is written, whatever the caller's Module and the archive.
C3_IdentityResolvedBeforeWrite ==
    WriteIndexes /= {} => Module /= <<>>

C6_NoRewriteWithoutOriginal ==
    (\A k \in 1..Len(archive) : archive[k] /= EMod)
    => \A i \in LogIndexes :
          (oplog[i].op = "WriteFile" /\ oplog[i].ok)
          => oplog[i].data = archive[oplog[i].entry].content

\* C7 (as claimed): the path removed before the rename is not the
\* destination, not a directory above it and not the extracted
\* <dest>/<rootPrefix>, so what was extracted there is still there when the
\* rename is attempted.
C7_RemoveSparesExtracted ==
    /\ \A i \in LogIndexes :
          (oplog[i].op = "RemoveAll" /\ oplog[i].ok)
          => /\ ~AtOrUnder(dest, oplog[i].path)
             /\ oplog[i].path /= RootPath(dest)
    /\ pc = "rename"
       => \A i \in WriteIndexes :
             (oplog[i].ok /\ InRootFolder(oplog[i].entry))
             => oplog[i].path \in dirs \cup files

\* C8 (as claimed): whenever some entry's cleaned name is
\* <rootPrefix>/go.mod, at any index, the original identity is the module
\* declaration of the highest-indexed such entry.
C8_ManifestFoundAtEveryIndex ==
    Prepared =>
        \A k \in 1..Len(archive) :
            (IsManifest(k) /\ \A j \in (k + 1)..Len(archive) : ~IsManifest(j))
            => oldModuleName = ModulePath(archive[k].content).val

\* C10 (as claimed): a failed file-system call is the last call unzip
\* makes, and unzip returns an error.
C10_FailureStops ==
    \A i \in LogIndexes :
        ~oplog[i].ok => (i = Len(oplog) /\ pc = "done" /\ err /= "")

====
